---- MODULE Spec2Model ----
(***************************************************************************)
(* Model of the SDS814XHD oscilloscope driver (src/SDS814XHD.py): the      *)
(* preamble decoder read_preamble, the waveform reader get_waveform_data,  *)
(* the channel selection set_channel and the table look-ups of             *)
(* get_preamble_dict, over byte buffers handed over by the VISA transport, *)
(* and of the GPP25045 power supply driver (src/GPP25045.py): its          *)
(* constructor, set_current, set_voltage, toggle_output and close, over    *)
(* the SCPI commands they hand to the VISA transport.                      *)
(*                                                                         *)
(* Python values are modelled as follows.                                  *)
(*   bytes            a sequence of naturals 0..255                        *)
(*   int              an integer                                           *)
(*   float ('f')      the signed 32-bit word holding its IEEE-754 bits     *)
(*   float ('d')      the pair <<low word, high word>> of its bits         *)
(*   float arithmetic exact fractions <<n, d>> (rounding is not modelled)  *)
(*   self.<attr>      the function self_attrs from the names of the        *)
(*                    attributes assigned so far to their values           *)
(***************************************************************************)
EXTENDS Integers, Sequences, FiniteSets, TLC

VARIABLES
    long_size,     \* struct.calcsize('l') of the host: 4 (Windows) or 8 (LP64)
    big_endian,    \* TRUE when the host's native byte order is big-endian
    constructed,   \* "no", "yes", or "raised" when __init__ let an exception out
    oscilloscope,  \* self.oscilloscope: "None" or "resource"
    self_attrs,    \* the cached preamble attributes self.num_points, ...
    wav_sour,      \* the device's active waveform source (answer to WAV:SOUR?)
    last,          \* the last call: its inputs, what it wrote, how it ended
    attrs_before,  \* self_attrs as it was when the last call started
    loaded,        \* TRUE once a read_preamble call has run to its end
    first,         \* what the first call to unpack a preamble block made of it
                   \* (kept only in the sessions that compare two decodes)
    psu,           \* GPP25045 self.psu: "unset", "None", "open" or "closed"
    output_state,  \* GPP25045 self.output_state: "unset", "True" or "False"
    supply,        \* the power supply: the targets and the output state that
                   \* the commands it has accepted so far left it with
    psu_call       \* the last GPP25045 call: its argument, what it handed to
                   \* the transport, how it ended

scope_vars == <<long_size, big_endian, constructed, oscilloscope, self_attrs,
                wav_sour, last, attrs_before, loaded, first>>

psu_vars == <<psu, output_state, supply, psu_call>>

vars == <<scope_vars, psu_vars>>

----------------------------------------------------------------------------
(* Bounds of the model *)

\* preamble buffers of 357 .. 357 + MaxPad bytes are offered besides the short ones
MaxPad == 1

----------------------------------------------------------------------------
(* Class constants *)

VALID_CHANNELS == <<"C1", "C2", "C3", "C4", "F1", "F2", "F3", "F4">>

\* sec/div, each entry m * 10^e written <<m, e>>
TIMEBASE_LIST ==
    << <<200, -12>>, <<500, -12>>, <<1, -9>>,
       <<2, -9>>, <<5, -9>>, <<10, -9>>, <<20, -9>>, <<50, -9>>, <<100, -9>>,
       <<200, -9>>, <<500, -9>>,
       <<1, -6>>, <<2, -6>>, <<5, -6>>, <<10, -6>>, <<20, -6>>, <<50, -6>>,
       <<100, -6>>, <<200, -6>>, <<500, -6>>,
       <<1, -3>>, <<2, -3>>, <<5, -3>>, <<10, -3>>, <<20, -3>>, <<50, -3>>,
       <<100, -3>>, <<200, -3>>, <<500, -3>>,
       <<1, 0>>, <<2, 0>>, <<5, 0>>, <<10, 0>>, <<20, 0>>, <<50, 0>>,
       <<100, 0>>, <<200, 0>>, <<500, 0>>, <<1000, 0>> >>

\* (mutant) the header skipped one byte short
n_skip_short == 11 - 1

\* the header bytes in front of the preamble's fields
n_skip == 11

\* the preamble's fields in the order the code unpacks them:
\* preamble[n_skip+start : n_skip+stop] unpacked with struct format fmt
PREAMBLE_LAYOUT ==
    << [name |-> "num_points",            start |-> 116, stop |-> 119 + 1, fmt |-> "l"],
       [name |-> "first_point",           start |-> 132, stop |-> 135 + 1, fmt |-> "l"],
       [name |-> "data_interval",         start |-> 136, stop |-> 139 + 1, fmt |-> "l"],
       [name |-> "read_frames",           start |-> 144, stop |-> 147 + 1, fmt |-> "l"],
       [name |-> "sum_frames",            start |-> 148, stop |-> 151 + 1, fmt |-> "l"],
       [name |-> "vertical_gain",         start |-> 156, stop |-> 159 + 1, fmt |-> "f"],
       [name |-> "vertical_offset",       start |-> 160, stop |-> 163 + 1, fmt |-> "f"],
       [name |-> "code_per_div",          start |-> 164, stop |-> 167 + 1, fmt |-> "f"],
       [name |-> "adc_bit",               start |-> 172, stop |-> 173 + 1, fmt |-> "h"],
       [name |-> "sequence_frame_idx",    start |-> 174, stop |-> 175 + 1, fmt |-> "h"],
       [name |-> "horizontal_interval",   start |-> 176, stop |-> 179 + 1, fmt |-> "f"],
       [name |-> "horizontal_offset",     start |-> 180, stop |-> 187 + 1, fmt |-> "d"],
       [name |-> "timebase_idx",          start |-> 324, stop |-> 325 + 1, fmt |-> "h"],
       [name |-> "vertical_coupling_idx", start |-> 326, stop |-> 327 + 1, fmt |-> "h"],
       [name |-> "probe_attenuation",     start |-> 328, stop |-> 331 + 1, fmt |-> "f"],
       [name |-> "bw_limit",              start |-> 334, stop |-> 335 + 1, fmt |-> "h"],
       [name |-> "source_channel",        start |-> 344, stop |-> 345 + 1, fmt |-> "h"] >>

FieldNames == {PREAMBLE_LAYOUT[k].name : k \in DOMAIN PREAMBLE_LAYOUT}

----------------------------------------------------------------------------
(* Python's bytes slicing and struct.unpack *)

Min(a, b) == IF a < b THEN a ELSE b
Max(a, b) == IF a < b THEN b ELSE a

\* bytes[a:b] for 0 <= a <= b: clipped to the buffer, never an error
Slice(bytes, a, b) == SubSeq(bytes, a + 1, Min(b, Len(bytes)))

Reverse(bytes) == [i \in 1..Len(bytes) |-> bytes[Len(bytes) + 1 - i]]

\* (mutant) 'f' taken for a double
Calcsize_f8(fmt, lsize) ==
    CASE fmt = "l" -> lsize
      [] fmt = "f" -> 8
      [] fmt = "d" -> 8
      [] fmt = "h" -> 2
      [] fmt = "c" -> 1

\* struct.calcsize(fmt) in native mode, on a host whose C long has lsize bytes
Calcsize(fmt, lsize) ==
    CASE fmt = "l" -> lsize
      [] fmt = "f" -> 4
      [] fmt = "d" -> 8
      [] fmt = "h" -> 2
      [] fmt = "c" -> 1

\* the bytes of a native value, least significant first (big: the host is
\* big-endian)
NativeOrder(bytes, big) == IF big THEN Reverse(bytes) ELSE bytes

\* two's complement value of 2 and of 4 bytes, least significant first
Int16(b) ==
    LET u == b[1] + 256 * b[2]
    IN  IF u >= 32768 THEN u - 65536 ELSE u

Int32(b) ==
    LET low == b[1] + 256 * b[2] + 65536 * b[3]
    IN  IF b[4] >= 128 THEN low + (b[4] - 256) * 16777216
                       ELSE low + b[4] * 16777216

\* struct.unpack(fmt, bytes) raises struct.error unless len(bytes) == calcsize(fmt)
UnpackFits(fmt, bytes, lsize) == Len(bytes) = Calcsize(fmt, lsize)

\* struct.unpack(fmt, bytes)[0] for a buffer that fits
\* ('l' is only ever handed 4 bytes, so it fits only where lsize = 4)
Unpack(fmt, bytes, big) ==
    LET b == NativeOrder(bytes, big)
    IN  CASE fmt = "l" -> Int32(b)
          [] fmt = "f" -> Int32(b)
          [] fmt = "h" -> Int16(b)
          [] fmt = "d" -> <<Int32(SubSeq(b, 1, 4)), Int32(SubSeq(b, 5, 8))>>
          [] fmt = "c" -> b[1]

\* the bytes the k-th struct.unpack line of the layout is handed
FieldSlice(preamble, k) ==
    Slice(preamble, n_skip + PREAMBLE_LAYOUT[k].start, n_skip + PREAMBLE_LAYOUT[k].stop)

\* The run of struct.unpack lines over the fields of the layout, in order,
\* stopped by the first struct.error. Yields the assignments made (name to
\* value) and the name of the field that raised ("" if none).
UnpackFields(preamble, lsize, big) ==
    LET bad == {k \in DOMAIN PREAMBLE_LAYOUT :
                    ~UnpackFits(PREAMBLE_LAYOUT[k].fmt, FieldSlice(preamble, k), lsize)}
        stop == IF bad = {} THEN Len(PREAMBLE_LAYOUT) + 1
                ELSE CHOOSE k \in bad : \A j \in bad : k <= j
        values == [k \in 1..(stop - 1) |->
                      Unpack(PREAMBLE_LAYOUT[k].fmt, FieldSlice(preamble, k), big)]
    IN  [attrs |-> [n \in {PREAMBLE_LAYOUT[k].name : k \in 1..(stop - 1)} |->
                       values[CHOOSE k \in 1..(stop - 1) : PREAMBLE_LAYOUT[k].name = n]],
         raised_at |-> IF bad = {} THEN "" ELSE PREAMBLE_LAYOUT[stop].name]

\* list[i] in Python: negative i counts from the end; IndexError outside -n .. n-1
IndexInRange(list, i) == -Len(list) <= i /\ i < Len(list)
ListItem(list, i) == IF i >= 0 THEN list[i + 1] ELSE list[Len(list) + i + 1]

----------------------------------------------------------------------------
(* The device: what the transport hands over after ':WAV:PRE?' *)

\* The acquisition parameters the device may report (wire values: integers,
\* and the IEEE-754 bits of 1.0 = 1065353216, 0.5 = 1056964608,
\* 100.0 = 1120403456, 2^-19 s = 905969664; the double 1.0 has the high
\* word 1072693248).
BaseValues ==
    [num_points |-> 3, first_point |-> 0, data_interval |-> 1,
     read_frames |-> 1, sum_frames |-> 1,
     vertical_gain |-> 1065353216, vertical_offset |-> 1056964608,
     code_per_div |-> 1120403456, adc_bit |-> 12, sequence_frame_idx |-> 1,
     horizontal_interval |-> 905969664, horizontal_offset |-> <<0, 0>>,
     timebase_idx |-> 11, vertical_coupling_idx |-> 0,
     probe_attenuation |-> 1065353216, bw_limit |-> 0, source_channel |-> 2]

DeviceValueNames == {"V1", "V2", "V3", "V4", "V5"}

DeviceValues(v) ==
    CASE v = "V1" -> BaseValues
      [] v = "V2" -> [BaseValues EXCEPT !.num_points = 2, !.timebase_idx = -2,
                                        !.source_channel = -1, !.bw_limit = 1,
                                        !.vertical_offset = 0]
      [] v = "V3" -> [BaseValues EXCEPT !.timebase_idx = 39]
      [] v = "V4" -> [BaseValues EXCEPT !.timebase_idx = 38, !.source_channel = 8,
                                        !.horizontal_interval = 1056964608,
                                        !.horizontal_offset = <<0, 1072693248>>]
      [] v = "V5" -> [BaseValues EXCEPT !.code_per_div = 0, !.source_channel = 7]

\* byte k (0 = least significant) of the two's complement of x
LEByte(x, k) ==
    CASE k = 0 -> x % 256
      [] k = 1 -> (x \div 256) % 256
      [] k = 2 -> (x \div 65536) % 256
      [] k = 3 -> (x \div 16777216) % 256

\* the little-endian wire image of a 16-bit, a 32-bit and a 64-bit value
LE2(x) == <<LEByte(x, 0), LEByte(x, 1)>>
LE4(x) == <<LEByte(x, 0), LEByte(x, 1), LEByte(x, 2), LEByte(x, 3)>>
LE8(x) == LE4(x[1]) \o LE4(x[2])

Zeros(n) == [i \in 1..n |-> 0]

\* the device's preamble block: 11 header bytes, then each field
\* little-endian at its offset (in the margin), zeros in between
DeviceFields(v) ==
    [i \in 1..n_skip |-> 35] \o Zeros(116)
    \o LE4(v.num_points)            \o Zeros(12)     \* 116
    \o LE4(v.first_point)                            \* 132
    \o LE4(v.data_interval)         \o Zeros(4)      \* 136
    \o LE4(v.read_frames)                            \* 144
    \o LE4(v.sum_frames)            \o Zeros(4)      \* 148
    \o LE4(v.vertical_gain)                          \* 156
    \o LE4(v.vertical_offset)                        \* 160
    \o LE4(v.code_per_div)          \o Zeros(4)      \* 164
    \o LE2(v.adc_bit)                                \* 172
    \o LE2(v.sequence_frame_idx)                     \* 174
    \o LE4(v.horizontal_interval)                    \* 176
    \o LE8(v.horizontal_offset)     \o Zeros(136)    \* 180
    \o LE2(v.timebase_idx)                           \* 324
    \o LE2(v.vertical_coupling_idx)                  \* 326
    \o LE4(v.probe_attenuation)     \o Zeros(2)      \* 328
    \o LE2(v.bw_limit)              \o Zeros(8)      \* 334
    \o LE2(v.source_channel)                         \* 344

\* the block cut or zero-padded to len bytes
DeviceBlock(values, len) ==
    LET full == DeviceFields(values)
    IN  IF len <= Len(full) THEN SubSeq(full, 1, len)
        ELSE full \o Zeros(len - Len(full))

\* the shortest block that holds every field
FullLength == n_skip + PREAMBLE_LAYOUT[Len(PREAMBLE_LAYOUT)].stop

\* the blocks read_raw() may return: every parameter set at full length or
\* longer, and one of them cut short at every length
AllPreambleInputs ==
    {d \in [v : DeviceValueNames, len : 0..(FullLength + MaxPad)] :
        d.len < FullLength => d.v = "V2"}

\* the ones offered at every call: the short ones at a few lengths only
ShortLengths == {0, 131, 200, 354, 356}

PreambleInputs ==
    {d \in [v : DeviceValueNames, len : ShortLengths \cup FullLength..(FullLength + MaxPad)] :
        d.len \in ShortLengths => d.v = "V2"}

NoPreamble == [v |-> "", len |-> -1]

PreambleBytes(d) == DeviceBlock(DeviceValues(d.v), d.len)

\* the hosts the driver may run on
LongSizes == {4, 8}

\* what the unpack lines make of each block on each host
PreambleDecodes ==
    [lsize \in LongSizes |-> [big \in BOOLEAN |->
        [d \in {x : x \in AllPreambleInputs} |-> UnpackFields(PreambleBytes(d), lsize, big)]]]

----------------------------------------------------------------------------
(* read_preamble *)

NoAttrs == [n \in {} |-> 0]

\* (mutant) the connection is never found missing
NotConnected_never(osc) == FALSE

\* self.oscilloscope is None: every self.oscilloscope.<method> is an AttributeError
NotConnected(osc) == osc = "None"

\* (mutant) an attribute once assigned is never assigned again
read_preamble_keeping(attrs, osc, fail_at, d, lsize, big) ==
    IF NotConnected(osc)
    THEN [attrs |-> attrs, outcome |-> "raised", exc |-> "AttributeError",
          at |-> "", cmds |-> <<>>, log |-> <<>>, done |-> FALSE]
    ELSE IF fail_at \in {1, 2}
    THEN [attrs |-> attrs, outcome |-> "returned", exc |-> "",
          at |-> "", cmds |-> SubSeq(<<":WAV:PRE?">>, 1, fail_at - 1),
          log |-> <<"error">>, done |-> FALSE]
    ELSE LET r == PreambleDecodes[lsize][big][d]
         IN  [attrs |-> attrs @@ r.attrs,
              outcome |-> IF r.raised_at # "" THEN "raised" ELSE "returned",
              exc |-> IF r.raised_at # "" THEN "struct.error" ELSE "",
              at |-> r.raised_at, cmds |-> <<":WAV:PRE?">>, log |-> <<>>,
              done |-> r.raised_at = ""]

\* read_preamble(): fail_at = k > 0 makes the k-th transport call (1 write,
\* 2 read_raw) raise VisaIOError; d is the block read_raw() returns.
read_preamble(attrs, osc, fail_at, d, lsize, big) ==
    IF NotConnected(osc)
    THEN [attrs |-> attrs, outcome |-> "raised", exc |-> "AttributeError",
          at |-> "", cmds |-> <<>>, log |-> <<>>, done |-> FALSE]
    ELSE IF fail_at = 1
    THEN [attrs |-> attrs, outcome |-> "returned", exc |-> "",
          at |-> "", cmds |-> <<>>, log |-> <<"error">>, done |-> FALSE]
    ELSE IF fail_at = 2
    THEN [attrs |-> attrs, outcome |-> "returned", exc |-> "",
          at |-> "", cmds |-> <<":WAV:PRE?">>, log |-> <<"error">>, done |-> FALSE]
    ELSE LET r == PreambleDecodes[lsize][big][d]
         IN  IF r.raised_at # ""
             THEN [attrs |-> r.attrs @@ attrs, outcome |-> "raised", exc |-> "struct.error",
                   at |-> r.raised_at, cmds |-> <<":WAV:PRE?">>, log |-> <<>>,
                   done |-> FALSE]
             ELSE [attrs |-> r.attrs @@ attrs, outcome |-> "returned", exc |-> "",
                   at |-> "", cmds |-> <<":WAV:PRE?">>, log |-> <<>>, done |-> TRUE]

\* the call record kept in `last`
Call(op, channel, fail_at, d, wave, c, kind, ret) ==
    [op |-> op, channel |-> channel, fail_at |-> fail_at, preamble |-> d,
     wave |-> wave, outcome |-> c.outcome, exc |-> c.exc, at |-> c.at,
     cmds |-> c.cmds, log |-> c.log, ret_kind |-> kind, ret |-> ret]

\* what a call returns: ret_kind "None", "dict" (get_preamble_dict), "waveform"
\* (get_waveform_data) or "channel" (get_current_channel), with the parts in use
Ret(attrs, timebase, name, raw_values, time, voltage) ==
    [attrs |-> attrs, timebase |-> timebase, name |-> name,
     raw_values |-> raw_values, time_data |-> time, voltage_data |-> voltage]

NoRet == Ret(NoAttrs, <<>>, "", <<>>, <<>>, <<>>)

Outcome(outcome, exc, at, cmds, log) ==
    [outcome |-> outcome, exc |-> exc, at |-> at, cmds |-> cmds, log |-> log]

NoCall == Call("", "", 0, NoPreamble, <<>>, Outcome("", "", "", <<>>, <<>>),
               "None", NoRet)

\* What a call that handed a preamble block to the unpack lines shows of the
\* decode: the field whose line raised ("" if none) and, where the call shows
\* them, the values: the attributes after __init__ and read_preamble, the
\* preamble of the waveform returned by get_waveform_data.
Observed(call, attrs) ==
    LET raised == call.exc = "struct.error" /\ call.at \in FieldNames
        shown == IF raised THEN "none"
                 ELSE IF call.op \in {"__init__", "read_preamble"} THEN "attrs"
                 ELSE IF call.ret_kind = "waveform" THEN "ret"
                 ELSE "none"
    IN  [op |-> call.op, d |-> call.preamble,
         at |-> IF raised THEN call.at ELSE "",
         shown |-> shown # "none",
         values |-> CASE shown = "attrs" -> attrs
                      [] shown = "ret" -> call.ret.attrs
                      [] OTHER -> NoAttrs]

NoDecode == Observed(NoCall, NoAttrs)

\* the value of `first` in the sessions that keep no record
Untracked == [NoDecode EXCEPT !.op = "untracked"]

\* `first` after a call: set by the first call that unpacked a block
Remember(was, call, attrs) ==
    IF was = NoDecode /\ call.preamble # NoPreamble
                     /\ call.op \in {"__init__", "read_preamble", "get_waveform_data"}
    THEN Observed(call, attrs)
    ELSE was

----------------------------------------------------------------------------
(* The session *)

(* The power supply driver before its constructor has run: no attribute is *)
(* assigned, the supply has been sent nothing.                              *)
NoSupply == [volt |-> <<>>, curr |-> <<>>, outp |-> <<>>]

NoPsuCall ==
    [op |-> "none", arg |-> <<>>, events |-> <<>>, outcome |-> "none",
     exc |-> "", log |-> "", supply_before |-> NoSupply]

PsuUnused ==
    /\ psu = "unset"
    /\ output_state = "unset"
    /\ supply = NoSupply
    /\ psu_call = NoPsuCall

InitSession ==
    /\ PsuUnused
    /\ long_size \in LongSizes
    /\ big_endian \in BOOLEAN
    /\ constructed = "no"
    /\ oscilloscope = "None"
    /\ self_attrs = NoAttrs
    /\ wav_sour = "C2"
    /\ last = NoCall
    /\ attrs_before = NoAttrs
    /\ loaded = FALSE

Init == InitSession /\ first = Untracked

\* SDS814XHD(resource_name): open_resource raises VisaIOError (connect = FALSE)
\* or yields the resource; then get_idn() (which swallows its own VisaIOError)
\* and read_preamble(). An exception read_preamble lets out leaves no object.
Construct ==
    /\ constructed = "no"
    /\ \E connect \in BOOLEAN :
          IF ~connect
          THEN /\ oscilloscope' = "None"
               /\ constructed' = "yes"
               /\ last' = Call("__init__", "", 0, NoPreamble, <<>>,
                               Outcome("returned", "", "", <<>>, <<"error">>),
                               "None", NoRet)
               /\ UNCHANGED <<self_attrs, loaded>>
          ELSE \E fail_at \in 0..2 :
               \E d \in (IF fail_at = 0 THEN PreambleInputs ELSE {NoPreamble}) :
                  LET c == read_preamble(self_attrs, "resource", fail_at, d, long_size, big_endian)
                  IN  /\ oscilloscope' = "resource"
                      /\ constructed' = IF c.outcome = "raised" THEN "raised" ELSE "yes"
                      /\ self_attrs' = c.attrs
                      /\ loaded' = c.done
                      /\ last' = Call("__init__", "", fail_at, d, <<>>,
                                      [c EXCEPT !.cmds = <<"*IDN?">> \o c.cmds],
                                      "None", NoRet)
    /\ attrs_before' = self_attrs
    /\ UNCHANGED <<long_size, big_endian, wav_sour>>
    /\ first' = Remember(first, last', self_attrs')
    /\ UNCHANGED psu_vars

\* scope.read_preamble()
ReadPreambleFrom(blocks) ==
    /\ constructed = "yes"
    /\ \E fail_at \in 0..2 :
       \E d \in (IF fail_at = 0 /\ ~NotConnected(oscilloscope)
                 THEN blocks ELSE {NoPreamble}) :
          LET c == read_preamble(self_attrs, oscilloscope, fail_at, d, long_size, big_endian)
          IN  /\ self_attrs' = c.attrs
              /\ loaded' = (loaded \/ c.done)
              /\ last' = Call("read_preamble", "", fail_at, d, <<>>, c, "None", NoRet)
    /\ attrs_before' = self_attrs
    /\ UNCHANGED <<long_size, big_endian, constructed, oscilloscope, wav_sour>>
    /\ first' = Remember(first, last', self_attrs')
    /\ UNCHANGED psu_vars

ReadPreamble == ReadPreambleFrom(PreambleInputs)

----------------------------------------------------------------------------
(* get_preamble_dict *)

FieldPos(name) == CHOOSE k \in DOMAIN PREAMBLE_LAYOUT : PREAMBLE_LAYOUT[k].name = name

\* the first attribute of the layout's order that was never assigned
\* (Len + 1 when all are there)
FirstMissing(attrs) ==
    LET missing == {k \in DOMAIN PREAMBLE_LAYOUT : PREAMBLE_LAYOUT[k].name \notin DOMAIN attrs}
    IN  IF missing = {} THEN Len(PREAMBLE_LAYOUT) + 1
        ELSE CHOOSE k \in missing : \A j \in missing : k <= j

\* get_preamble_dict(): the dict literal reads the attributes in the layout's
\* order, with TIMEBASE_LIST[self.timebase_idx] right after timebase_idx and
\* VALID_CHANNELS[self.source_channel] at the end.
get_preamble_dict(attrs) ==
    LET m == FirstMissing(attrs)
    IN  IF m <= FieldPos("timebase_idx")
        THEN [c |-> Outcome("raised", "AttributeError", PREAMBLE_LAYOUT[m].name, <<>>, <<>>),
              kind |-> "None", ret |-> NoRet]
        ELSE IF ~IndexInRange(TIMEBASE_LIST, attrs["timebase_idx"])
        THEN [c |-> Outcome("raised", "IndexError", "timebase_idx", <<>>, <<>>),
              kind |-> "None", ret |-> NoRet]
        ELSE IF m <= FieldPos("source_channel")
        THEN [c |-> Outcome("raised", "AttributeError", PREAMBLE_LAYOUT[m].name, <<>>, <<>>),
              kind |-> "None", ret |-> NoRet]
        ELSE IF ~IndexInRange(VALID_CHANNELS, attrs["source_channel"])
        THEN [c |-> Outcome("raised", "IndexError", "source_channel", <<>>, <<>>),
              kind |-> "None", ret |-> NoRet]
        ELSE [c |-> Outcome("returned", "", "", <<>>, <<>>),
              kind |-> "dict",
              ret |-> Ret(attrs, ListItem(TIMEBASE_LIST, attrs["timebase_idx"]),
                          ListItem(VALID_CHANNELS, attrs["source_channel"]), <<>>, <<>>, <<>>)]

GetPreambleDict ==
    /\ constructed = "yes"
    /\ LET r == get_preamble_dict(self_attrs)
       IN  last' = Call("get_preamble_dict", "", 0, NoPreamble, <<>>, r.c, r.kind, r.ret)
    /\ attrs_before' = self_attrs
    /\ UNCHANGED <<long_size, big_endian, constructed, oscilloscope, self_attrs,
                   wav_sour, loaded>>
    /\ first' = Remember(first, last', self_attrs')
    /\ UNCHANGED psu_vars

----------------------------------------------------------------------------
(* Channel selection *)

is_valid_channel(channel) == \E i \in DOMAIN VALID_CHANNELS : VALID_CHANNELS[i] = channel

\* get_current_channel(): query('WAV:SOUR?').strip(), None after a VisaIOError
get_current_channel(osc, fail_at, active) ==
    IF NotConnected(osc)
    THEN [c |-> Outcome("raised", "AttributeError", "", <<>>, <<>>),
          kind |-> "None", ret |-> NoRet]
    ELSE IF fail_at = 1
    THEN [c |-> Outcome("returned", "", "", <<>>, <<"error">>),
          kind |-> "None", ret |-> NoRet]
    ELSE [c |-> Outcome("returned", "", "", <<"WAV:SOUR?">>, <<>>),
          kind |-> "channel", ret |-> Ret(NoAttrs, <<>>, active, <<>>, <<>>, <<>>)]

\* set_channel(channel): a valid name falls through the only `if` and nothing
\* is written; an invalid one is logged and the active channel is queried.
\* Yields the outcome and the commands that reach the device.
set_channel(osc, channel, fail_at, active) ==
    IF is_valid_channel(channel)
    THEN Outcome("returned", "", "", <<>>, <<>>)
    ELSE LET g == get_current_channel(osc, fail_at, active)
         IN  IF g.c.outcome = "raised"
             THEN [g.c EXCEPT !.log = <<"warning: invalid channel">>]
             ELSE IF g.kind = "channel" /\ g.ret.name # ""
             THEN [g.c EXCEPT !.log = <<"warning: invalid channel">> \o g.c.log
                                      \o <<"warning: falling back">>]
             ELSE [g.c EXCEPT !.log = <<"warning: invalid channel">> \o g.c.log]

\* the command that selects a waveform source on the device
SelectCommand(channel) == "WAV:SOUR " \o channel

\* the device's active source after the commands of one call: only a
\* selection command changes it (to the last one selected)
DeviceSource(active, cmds) ==
    LET sel == {i \in DOMAIN cmds : \E n \in DOMAIN VALID_CHANNELS :
                                       cmds[i] = SelectCommand(VALID_CHANNELS[n])}
    IN  IF sel = {} THEN active
        ELSE LET i == CHOOSE j \in sel : \A k \in sel : k <= j
             IN  VALID_CHANNELS[CHOOSE n \in DOMAIN VALID_CHANNELS :
                                   cmds[i] = SelectCommand(VALID_CHANNELS[n])]

ChannelArgs == {"C3", "F4", "C9", ""}

SetChannel ==
    /\ constructed = "yes"
    /\ \E channel \in ChannelArgs :
       \E fail_at \in (IF is_valid_channel(channel) \/ NotConnected(oscilloscope)
                       THEN {0} ELSE 0..1) :
          LET c == set_channel(oscilloscope, channel, fail_at, wav_sour)
          IN  /\ last' = Call("set_channel", channel, fail_at, NoPreamble, <<>>, c,
                              "None", NoRet)
              /\ wav_sour' = DeviceSource(wav_sour, c.cmds)
    /\ attrs_before' = self_attrs
    /\ UNCHANGED <<long_size, big_endian, constructed, oscilloscope, self_attrs, loaded>>
    /\ first' = Remember(first, last', self_attrs')
    /\ UNCHANGED psu_vars

GetCurrentChannel ==
    /\ constructed = "yes"
    /\ \E fail_at \in (IF NotConnected(oscilloscope) THEN {0} ELSE 0..1) :
          LET g == get_current_channel(oscilloscope, fail_at, wav_sour)
          IN  last' = Call("get_current_channel", "", fail_at, NoPreamble, <<>>,
                           g.c, g.kind, g.ret)
    /\ attrs_before' = self_attrs
    /\ UNCHANGED <<long_size, big_endian, constructed, oscilloscope, self_attrs,
                   wav_sour, loaded>>
    /\ first' = Remember(first, last', self_attrs')
    /\ UNCHANGED psu_vars

----------------------------------------------------------------------------
(* get_waveform_data *)

\* bytes.rstrip(): drops every trailing ASCII whitespace byte
\* (tab, LF, VT, FF, CR, space)
Whitespace == {9, 10, 11, 12, 13, 32}

rstrip(bytes) ==
    LET kept == {i \in DOMAIN bytes : bytes[i] \notin Whitespace}
    IN  IF kept = {} THEN <<>>
        ELSE SubSeq(bytes, 1, CHOOSE i \in kept : \A j \in kept : j <= i)

\* int(b) of a single byte: the digits '0'..'9', ValueError for any other byte
IsDigit(byte) == 48 <= byte /\ byte <= 57

\* (mutant) an offset beyond the buffer goes unnoticed
FrombufferFits_anyoffset(raw_data, offset) == (Len(raw_data) - offset) % 2 = 0

DigitValue(byte) == byte - 48

\* np.frombuffer(raw_data, offset=offset, count=-1, dtype=np.int16): ValueError
\* when offset is beyond the buffer or the rest is no multiple of 2 bytes
FrombufferFits(raw_data, offset) ==
    /\ offset <= Len(raw_data)
    /\ (Len(raw_data) - offset) % 2 = 0

Frombuffer(raw_data, offset, big) ==
    [i \in 1..((Len(raw_data) - offset) \div 2) |->
        Int16(NativeOrder(SubSeq(raw_data, offset + 2 * i - 1, offset + 2 * i), big))]

\* a float ('f' bits) that is +0.0 or -0.0: dividing by it is a ZeroDivisionError
IsZeroFloat(bits) == bits = 0 \/ bits = -2147483647 - 1

\* Python and numpy floats are held as exact fractions <<n, d>> in lowest terms
\* with d > 0; the rounding of the float arithmetic is not modelled.
GCD[a \in Nat, b \in Nat] == IF b = 0 THEN a ELSE GCD[b, a % b]

Abs(x) == IF x < 0 THEN -x ELSE x

Frac(n, d) ==
    LET g == GCD[Abs(n), d]
    IN  <<n \div g, d \div g>>

FracAdd(x, y) ==
    LET g == GCD[x[2], y[2]]
    IN  Frac(x[1] * (y[2] \div g) + y[1] * (x[2] \div g), (x[2] \div g) * y[2])

FracSub(x, y) == FracAdd(x, <<-y[1], y[2]>>)

FracMul(x, y) ==
    LET g1 == GCD[Abs(x[1]), y[2]]
        g2 == GCD[Abs(y[1]), x[2]]
    IN  <<(x[1] \div g1) * (y[1] \div g2), (x[2] \div g2) * (y[2] \div g1)>>

\* x / y for y # 0
FracDiv(x, y) ==
    FracMul(x, IF y[1] < 0 THEN <<-y[2], -y[1]>> ELSE <<y[2], y[1]>>)

\* sig * 2^x as a fraction, for sig >= 0 of at most 24 bits
Dyadic(sig, x) ==
    IF sig = 0 THEN <<0, 1>>
    ELSE LET t == CHOOSE k \in 0..24 : sig % (2^k) = 0 /\ sig % (2^(k + 1)) # 0
             odd == sig \div (2^t)
         IN  IF x + t >= 0 THEN <<odd * 2^(x + t), 1>> ELSE <<odd, 2^(-(x + t))>>

\* the low 31 bits of a 32-bit word (the word without its sign bit)
Unsigned31(word) == IF word < 0 THEN (word + 2147483647) + 1 ELSE word

\* the Python float struct.unpack('f') yields, from its IEEE-754 single bits:
\* sign, 8 bits of exponent, 23 of fraction (finite values)
FloatValue(bits) ==
    LET u == Unsigned31(bits)
        e == u \div 8388608
        m == u % 8388608
        mag == IF e = 0 THEN Dyadic(m, -149) ELSE Dyadic(8388608 + m, e - 150)
    IN  IF bits < 0 THEN <<-mag[1], mag[2]>> ELSE mag

\* the Python float struct.unpack('d') yields, from its IEEE-754 double bits
\* <<low word, high word>>: sign, 11 bits of exponent, 52 of fraction (finite
\* values whose low word is zero, as all offsets reported here)
DoubleValue(words) ==
    LET u == Unsigned31(words[2])
        e == u \div 1048576
        m == u % 1048576
        mag == IF e = 0 THEN Dyadic(m, -1042) ELSE Dyadic(1048576 + m, e - 1043)
    IN  IF words[2] < 0 THEN <<-mag[1], mag[2]>> ELSE mag

\* a float literal m * 10^e of TIMEBASE_LIST
LiteralValue(entry) ==
    IF entry[2] >= 0 THEN <<entry[1] * 10^entry[2], 1>>
    ELSE Frac(entry[1], 10^(-entry[2]))

\* "Specific for SDS800X HD model line"
horiz_grid_num == 10

\* (mutant) the samples scaled by the gain alone
voltage_data_undivided(raw_values, vertical_gain, code_per_div, vertical_offset) ==
    [i \in 1..Len(raw_values) |->
        FracSub(FracMul(<<raw_values[i], 1>>, vertical_gain), vertical_offset)]

\* (mutant) the time axis laid over the grid's full width
time_data_fullwidth(num_points, horizontal_offset, timebase, horizontal_interval) ==
    [i \in 1..Max(num_points, 0) |->
        FracAdd(FracSub(horizontal_offset, FracMul(<<10, 1>>, timebase)),
                FracMul(<<i - 1, 1>>, horizontal_interval))]

\* voltage_levels*(vertical_gain / code_per_div) - vertical_offset, elementwise
\* over the samples (code_per_div # 0)
voltage_data(raw_values, vertical_gain, code_per_div, vertical_offset) ==
    [i \in 1..Len(raw_values) |->
        FracSub(FracMul(<<raw_values[i], 1>>, FracDiv(vertical_gain, code_per_div)),
                vertical_offset)]

\* horizontal_offset - 0.5*horiz_grid_num*timebase
\*     + np.arange(num_points)*horizontal_interval
\* (np.arange of a negative count is empty)
time_data(num_points, horizontal_offset, timebase, horizontal_interval) ==
    [i \in 1..Max(num_points, 0) |->
        FracAdd(FracSub(horizontal_offset,
                        FracMul(FracMul(<<1, 2>>, <<horiz_grid_num, 1>>), timebase)),
                FracMul(<<i - 1, 1>>, horizontal_interval))]

\* the blocks read_raw() may return after ':WAV:DATA?': '#', the digit D, D
\* length digits, the samples (2 bytes each, little-endian), LF LF
WaveInputs ==
    { <<>>,                                             \* nothing at all
      <<35>>,                                           \* '#' alone
      <<35, 120, 52, 200, 0, 255, 255, 10, 10>>,        \* 'x' in place of D
      <<35, 57, 52, 200, 0, 10, 10>>,                   \* D = 9 but a short block
      <<35, 49, 48, 10, 10>>,                           \* no sample
      <<35, 49, 52, 200, 0, 255, 255, 10, 10>>,         \* 200, -1
      <<35, 49, 53, 200, 0, 255, 255, 7, 10, 10>>,      \* an odd payload
      <<35, 49, 54, 200, 0, 255, 255, 0, 1, 10, 10>>,   \* 200, -1, 256
      <<35, 49, 54, 200, 0, 255, 255, 0, 32, 10, 10>>,  \* 200, -1, 8192
      <<35, 49, 54, 200, 0, 1, 0, 10, 10, 10, 10>> }    \* 200, 1, 2570

\* get_waveform_data() once both blocks are read: wave and d are the blocks
\* the two read_raw() calls returned. The preamble is unpacked into locals;
\* the object's attributes are not touched.
ScaleWaveform(wave, d, lsize, big) ==
    LET cmds == <<":WAV:WIDT WORD", ":WAV:DATA?", ":WAV:PRE?">>
        raw_data == rstrip(wave)
        u == PreambleDecodes[lsize][big][d]
        digit == Slice(raw_data, 1, 2)
    IN  IF u.raised_at # ""
        THEN [c |-> Outcome("raised", "struct.error", u.raised_at, cmds, <<>>),
              kind |-> "None", ret |-> NoRet]
        ELSE IF ~IndexInRange(TIMEBASE_LIST, u.attrs["timebase_idx"])
        THEN [c |-> Outcome("raised", "IndexError", "timebase_idx", cmds, <<>>),
              kind |-> "None", ret |-> NoRet]
        ELSE IF ~UnpackFits("c", digit, lsize)
        THEN [c |-> Outcome("raised", "struct.error", "num_digits", cmds, <<>>),
              kind |-> "None", ret |-> NoRet]
        ELSE IF ~IsDigit(Unpack("c", digit, big))
        THEN [c |-> Outcome("returned", "", "num_digits", cmds, <<"error">>),
              kind |-> "None", ret |-> NoRet]
        ELSE IF ~FrombufferFits(raw_data, DigitValue(Unpack("c", digit, big)) + 2)
        THEN [c |-> Outcome("returned", "", "raw_values", cmds, <<"error">>),
              kind |-> "None", ret |-> NoRet]
        ELSE IF IsZeroFloat(u.attrs["code_per_div"])
        THEN [c |-> Outcome("raised", "ZeroDivisionError", "code_per_div", cmds, <<>>),
              kind |-> "None", ret |-> NoRet]
        ELSE LET timebase == ListItem(TIMEBASE_LIST, u.attrs["timebase_idx"])
                 num_digits == DigitValue(Unpack("c", digit, big))
                 raw_values == Frombuffer(raw_data, num_digits + 2, big)
             IN  [c |-> Outcome("returned", "", "", cmds, <<"info">>),
                  kind |-> "waveform",
                  ret |-> Ret(u.attrs, timebase, "", raw_values,
                              time_data(u.attrs["num_points"],
                                        DoubleValue(u.attrs["horizontal_offset"]),
                                        LiteralValue(timebase),
                                        FloatValue(u.attrs["horizontal_interval"])),
                              voltage_data(raw_values,
                                           FloatValue(u.attrs["vertical_gain"]),
                                           FloatValue(u.attrs["code_per_div"]),
                                           FloatValue(u.attrs["vertical_offset"])))]

\* what the call makes of each pair of blocks on each host
WaveformDecodes ==
    [lsize \in LongSizes |-> [big \in BOOLEAN |->
        [d \in {x : x \in AllPreambleInputs} |->
            [wave \in {w : w \in WaveInputs} |-> ScaleWaveform(wave, d, lsize, big)]]]]

\* get_waveform_data(): fail_at = k > 0 makes the k-th transport call raise
\* VisaIOError (1 write WIDT, 2 write DATA?, 3 read_raw, 4 write PRE?,
\* 5 read_raw)
get_waveform_data(osc, fail_at, wave, d, lsize, big) ==
    IF NotConnected(osc)
    THEN [c |-> Outcome("returned", "", "", <<>>, <<"error">>), kind |-> "None", ret |-> NoRet]
    ELSE IF fail_at > 0
    THEN [c |-> Outcome("returned", "", "",
                        SubSeq(<<":WAV:WIDT WORD", ":WAV:DATA?", ":WAV:PRE?">>, 1,
                               CASE fail_at = 1 -> 0 [] fail_at = 2 -> 1
                                 [] fail_at \in {3, 4} -> 2 [] fail_at = 5 -> 3),
                        <<"error">>),
          kind |-> "None", ret |-> NoRet]
    ELSE WaveformDecodes[lsize][big][d][wave]

GetWaveformDataFrom(waves, blocks) ==
    /\ constructed = "yes"
    /\ \E fail_at \in (IF NotConnected(oscilloscope) THEN {0} ELSE 0..5) :
       \E wave \in (IF fail_at = 0 /\ ~NotConnected(oscilloscope)
                    THEN waves ELSE {<<>>}) :
       \E d \in (IF fail_at = 0 /\ ~NotConnected(oscilloscope)
                 THEN blocks ELSE {NoPreamble}) :
          LET r == get_waveform_data(oscilloscope, fail_at, wave, d, long_size, big_endian)
          IN  last' = Call("get_waveform_data", "", fail_at, d, wave, r.c, r.kind, r.ret)
    /\ attrs_before' = self_attrs
    /\ UNCHANGED <<long_size, big_endian, constructed, oscilloscope, self_attrs,
                   wav_sour, loaded>>
    /\ first' = Remember(first, last', self_attrs')
    /\ UNCHANGED psu_vars

GetWaveformData == GetWaveformDataFrom(WaveInputs, PreambleInputs)

Next ==
    \/ Construct
    \/ ReadPreamble
    \/ GetPreambleDict
    \/ SetChannel
    \/ GetCurrentChannel
    \/ GetWaveformData

Spec == Init /\ [][Next]_vars

\* The decoder on its own: one call after the construction, on a preamble
\* block of any length from 0 up.
ReadPreambleOnce == last.op = "__init__" /\ ReadPreambleFrom(AllPreambleInputs)

GetWaveformDataOnce ==
    /\ last.op = "__init__"
    /\ GetWaveformDataFrom({<<35, 49, 52, 200, 0, 255, 255, 10, 10>>}, AllPreambleInputs)

NextDecode ==
    \/ Construct
    \/ ReadPreambleOnce
    \/ GetWaveformDataOnce

SpecDecode == Init /\ [][NextDecode]_vars

\* The sessions that compare two decodes of one block: the first decode is
\* kept in `first`, and every call is open afterwards (one waveform block).
InitTwice == InitSession /\ first = NoDecode

GetWaveformDataOfOne ==
    GetWaveformDataFrom({<<35, 49, 52, 200, 0, 255, 255, 10, 10>>}, PreambleInputs)

NextTwice ==
    \/ Construct
    \/ ReadPreamble
    \/ GetPreambleDict
    \/ SetChannel
    \/ GetCurrentChannel
    \/ GetWaveformDataOfOne

SpecTwice == InitTwice /\ [][NextTwice]_vars

----------------------------------------------------------------------------
(* GPP25045 power supply driver (src/GPP25045.py)                          *)
(*                                                                         *)
(* A Python number is the record [py, v]: py is "int", "float", "bool" or  *)
(* "nan", v its value as the fraction <<n, d>> with d > 0.  A command is   *)
(* the record [cmd, arg, ok]: the SCPI header, the bytes of the argument   *)
(* that follow the header, and whether the transport delivered it.         *)

PyInt(n) == [py |-> "int", v |-> <<n, 1>>]
PyFloat(n, d) == [py |-> "float", v |-> Frac(n, d)]
PyBool(b) == [py |-> "bool", v |-> IF b THEN <<1, 1>> ELSE <<0, 1>>]
PyNaN == [py |-> "nan", v |-> <<0, 1>>]
PyNone == [py |-> "none", v |-> <<0, 1>>]

\* (mutant) the voltage limit a step higher
MAX_VOLTAGE_high == PyFloat(36 + 1, 1)

MAX_CURRENT == PyFloat(10, 1)
MAX_VOLTAGE == PyFloat(36, 1)

\* x <= y and x >= y of Python numbers: False whenever one of them is nan
PyLe(x, y) == x.py # "nan" /\ y.py # "nan" /\ x.v[1] * y.v[2] <= y.v[1] * x.v[2]
PyGe(x, y) == x.py # "nan" /\ y.py # "nan" /\ x.v[1] * y.v[2] >= y.v[1] * x.v[2]

\* the decimal digits of n >= 0 as bytes
RECURSIVE Digits(_)
Digits(n) == IF n < 10 THEN <<48 + n>> ELSE Append(Digits(n \div 10), 48 + (n % 10))

\* f'{x}': str(x) of an int, and of a float that has one fraction digit
PyStr(x) ==
    LET sign == IF x.v[1] < 0 THEN <<45>> ELSE <<>>
        tenths == (Abs(x.v[1]) * 10) \div x.v[2]
    IN  CASE x.py = "nan" -> <<110, 97, 110>>
          [] x.py = "int" -> sign \o Digits(Abs(x.v[1]))
          [] OTHER -> sign \o Digits(tenths \div 10) \o <<46>> \o Digits(tenths % 10)

\* the value of a run of decimal digits, 0 for the empty run
RECURSIVE DigitsValue(_)
DigitsValue(text) ==
    IF text = <<>> THEN 0
    ELSE 10 * DigitsValue(SubSeq(text, 1, Len(text) - 1)) + DigitValue(text[Len(text)])

\* the number the supply reads from a decimal argument [-]digits[.digits]
NumberRead(text) ==
    LET neg == text # <<>> /\ text[1] = 45
        body == IF neg THEN Tail(text) ELSE text
        dots == {i \in 1..Len(body) : body[i] = 46}
        dot == IF dots = {} THEN Len(body) + 1 ELSE CHOOSE i \in dots : TRUE
        whole == DigitsValue(SubSeq(body, 1, dot - 1))
        places == SubSeq(body, dot + 1, Len(body))
        scale == 10 ^ Len(places)
        n == whole * scale + DigitsValue(places)
    IN  Frac(IF neg THEN -n ELSE n, scale)

PsuEvent(cmd, arg, ok) == [cmd |-> cmd, arg |-> arg, ok |-> ok]

\* the supply after it has accepted a command
Accept(sup, cmd, arg) ==
    CASE cmd = "SOUR:VOLT" -> [sup EXCEPT !.volt = NumberRead(arg)]
      [] cmd = "SOUR:CURR" -> [sup EXCEPT !.curr = NumberRead(arg)]
      [] cmd = "OUTP:STAT" -> [sup EXCEPT !.outp = arg]
      [] OTHER -> sup

\* self.psu.write(...): AttributeError on None before anything is sent,
\* pyvisa's InvalidSession on a closed resource, else the command goes out
\* and either reaches the supply or ends in a VisaIOError
Write(p, cmd, arg, sup, fails) ==
    CASE p = "None" -> [events |-> <<>>, exc |-> "AttributeError", supply |-> sup]
      [] p = "closed" -> [events |-> <<>>, exc |-> "InvalidSession", supply |-> sup]
      [] OTHER ->
            IF fails
            THEN [events |-> <<PsuEvent(cmd, arg, FALSE)>>, exc |-> "VisaIOError",
                  supply |-> sup]
            ELSE [events |-> <<PsuEvent(cmd, arg, TRUE)>>, exc |-> "",
                  supply |-> Accept(sup, cmd, arg)]

\* what a method body made of one write under "except pyvisa.VisaIOError"
Guarded(w) ==
    [events |-> w.events, supply |-> w.supply,
     raised |-> IF w.exc = "VisaIOError" THEN "" ELSE w.exc,
     log |-> CASE w.exc = "" -> "info" [] w.exc = "VisaIOError" -> "error" [] OTHER -> ""]

Unwritten(sup) == [events |-> <<>>, supply |-> sup, raised |-> "", log |-> "warning"]

set_current(p, current, sup, fails) ==
    IF PyLe(current, MAX_CURRENT) /\ PyGe(current, PyFloat(0, 1))
    THEN Guarded(Write(p, "SOUR:CURR", PyStr(current), sup, fails))
    ELSE Unwritten(sup)

set_voltage(p, voltage, sup, fails) ==
    IF PyLe(voltage, MAX_VOLTAGE) /\ PyGe(voltage, PyFloat(0, 1))
    THEN Guarded(Write(p, "SOUR:VOLT", PyStr(voltage), sup, fails))
    ELSE Unwritten(sup)

\* self.output_state is assigned before the command is written
toggle_output(p, state, sup, fails) ==
    LET w == Guarded(Write(p, "OUTP:STAT", IF state THEN <<49>> ELSE <<48>>, sup, fails))
    IN  [output_state |-> IF state THEN "True" ELSE "False", events |-> w.events,
         supply |-> w.supply, raised |-> w.raised, log |-> w.log]

\* (mutant) close() that closes the resource without switching the output off
close_plain(p, was, sup, off_fails, close_fails) ==
    IF p = "None"
    THEN [psu |-> p, output_state |-> was, events |-> <<>>, supply |-> sup,
          raised |-> "", log |-> ""]
    ELSE IF p = "closed" \/ close_fails
    THEN [psu |-> p, output_state |-> was,
          events |-> <<PsuEvent("close()", <<>>, FALSE)>>, supply |-> sup,
          raised |-> "", log |-> "error"]
    ELSE [psu |-> "closed", output_state |-> was,
          events |-> <<PsuEvent("close()", <<>>, TRUE)>>, supply |-> sup,
          raised |-> "", log |-> "info"]

\* close(): nothing when self.psu is None; else toggle_output(False), whose
\* VisaIOError has been caught inside it, then self.psu.close()
close(p, was, sup, off_fails, close_fails) ==
    LET off == toggle_output(p, FALSE, sup, off_fails)
    IN  IF p = "None"
        THEN [psu |-> p, output_state |-> was, events |-> <<>>, supply |-> sup,
              raised |-> "", log |-> ""]
        ELSE IF off.raised # ""
        THEN [psu |-> p, output_state |-> off.output_state, events |-> off.events,
              supply |-> off.supply, raised |-> off.raised, log |-> off.log]
        ELSE IF close_fails
        THEN [psu |-> p, output_state |-> off.output_state,
              events |-> Append(off.events, PsuEvent("close()", <<>>, FALSE)),
              supply |-> off.supply, raised |-> "", log |-> "error"]
        ELSE [psu |-> "closed", output_state |-> off.output_state,
              events |-> Append(off.events, PsuEvent("close()", <<>>, TRUE)),
              supply |-> off.supply, raised |-> "", log |-> "info"]

PsuCall(op, arg, r, before) ==
    [op |-> op, arg |-> arg, events |-> r.events,
     outcome |-> IF r.raised = "" THEN "returned" ELSE "raised",
     exc |-> r.raised, log |-> r.log, supply_before |-> before]

\* the arguments the calls are made with
VoltageInputs ==
    {PyFloat(-1, 10), PyFloat(0, 1), PyFloat(36, 1), PyFloat(361, 10), PyInt(40), PyNaN}

CurrentInputs ==
    {PyInt(-1), PyFloat(11, 2), PyInt(10), PyFloat(101, 10), PyNaN}

\* GPP25045(resource_name): when ResourceManager(), open_resource or the
\* timeout assignment ends in a VisaIOError self.psu is None and nothing else
\* is done; else '*IDN?' is queried for the log line (get_idn catches its
\* VisaIOError) and toggle_output(False) is called
ConstructPSU ==
    /\ psu = "unset"
    /\ \E connects, idn_fails, off_fails \in BOOLEAN :
          IF ~connects
          THEN /\ ~idn_fails /\ ~off_fails
               /\ psu' = "None"
               /\ UNCHANGED <<output_state, supply>>
               /\ psu_call' =
                     [op |-> "__init__", arg |-> PyNone,
                      events |-> <<PsuEvent("open_resource", <<>>, FALSE)>>,
                      outcome |-> "returned", exc |-> "", log |-> "error",
                      supply_before |-> supply]
          ELSE LET off == toggle_output("open", FALSE, supply, off_fails)
               IN  /\ psu' = "open"
                   /\ output_state' = off.output_state
                   /\ supply' = off.supply
                   /\ psu_call' =
                         [op |-> "__init__", arg |-> PyNone,
                          events |-> <<PsuEvent("open_resource", <<>>, TRUE),
                                       PsuEvent("*IDN?", <<>>, ~idn_fails)>>
                                     \o off.events,
                          outcome |-> "returned", exc |-> "", log |-> off.log,
                          supply_before |-> supply]
    /\ UNCHANGED scope_vars

SetCurrent ==
    /\ psu # "unset"
    /\ \E current \in CurrentInputs, fails \in BOOLEAN :
          LET r == set_current(psu, current, supply, fails)
          IN  /\ fails => r.log = "error"
              /\ supply' = r.supply
              /\ psu_call' = PsuCall("set_current", current, r, supply)
    /\ UNCHANGED <<psu, output_state>>
    /\ UNCHANGED scope_vars

SetVoltage ==
    /\ psu # "unset"
    /\ \E voltage \in VoltageInputs, fails \in BOOLEAN :
          LET r == set_voltage(psu, voltage, supply, fails)
          IN  /\ fails => r.log = "error"
              /\ supply' = r.supply
              /\ psu_call' = PsuCall("set_voltage", voltage, r, supply)
    /\ UNCHANGED <<psu, output_state>>
    /\ UNCHANGED scope_vars

ToggleOutput ==
    /\ psu # "unset"
    /\ \E state, fails \in BOOLEAN :
          LET r == toggle_output(psu, state, supply, fails)
          IN  /\ fails => r.log = "error"
              /\ output_state' = r.output_state
              /\ supply' = r.supply
              /\ psu_call' = PsuCall("toggle_output", PyBool(state), r, supply)
    /\ UNCHANGED psu
    /\ UNCHANGED scope_vars

Close ==
    /\ psu # "unset"
    /\ \E off_fails, close_fails \in BOOLEAN :
          LET r == close(psu, output_state, supply, off_fails, close_fails)
          IN  /\ off_fails => psu = "open"
              /\ close_fails => psu = "open"
              /\ psu' = r.psu
              /\ output_state' = r.output_state
              /\ supply' = r.supply
              /\ psu_call' = PsuCall("close", PyNone, r, supply)
    /\ UNCHANGED scope_vars

\* the oscilloscope driver left alone
ScopeUnused ==
    /\ long_size = 8
    /\ big_endian = FALSE
    /\ constructed = "no"
    /\ oscilloscope = "None"
    /\ self_attrs = NoAttrs
    /\ wav_sour = "C2"
    /\ last = NoCall
    /\ attrs_before = NoAttrs
    /\ loaded = FALSE
    /\ first = Untracked

InitPSU == PsuUnused /\ ScopeUnused

NextPSU ==
    \/ ConstructPSU
    \/ SetCurrent
    \/ SetVoltage
    \/ ToggleOutput
    \/ Close

SpecPSU == InitPSU /\ [][NextPSU]_vars

----------------------------------------------------------------------------
(* Vocabulary of the properties *)

\* the last call handed a preamble block to the unpack lines
Unpacked ==
    /\ last.op \in {"__init__", "read_preamble", "get_waveform_data"}
    /\ last.preamble # NoPreamble

\* ... and one of the unpack lines raised struct.error
UnpackRaised == Unpacked /\ last.exc = "struct.error" /\ last.at \in FieldNames

\* ... and every field was unpacked
UnpackDone == Unpacked /\ ~UnpackRaised

AllAssigned(attrs) == FieldNames \subseteq DOMAIN attrs

\* the call returned a waveform
GotWaveform == last.op = "get_waveform_data" /\ last.ret_kind = "waveform"

----------------------------------------------------------------------------
(* Properties *)

\* C1: when read_preamble fails to decode its block, every cached preamble
\* attribute has the value it had before the call.
C1_FailedLoadKeepsPreamble ==
    (last.op = "read_preamble" /\ UnpackRaised) => self_attrs = attrs_before

\* C2: the preamble decodes only from a block of at least 11 + 346 = 357
\* bytes; every shorter block ends in the decode error, and no preamble (and no
\* waveform) comes out of the call.
C2_DecodeNeeds357Bytes ==
    Unpacked =>
        /\ UnpackDone => last.preamble.len >= 11 + 346
        /\ last.preamble.len < 11 + 346 =>
              /\ UnpackRaised
              /\ last.outcome = "raised"
              /\ last.ret_kind = "None"

C2_Witness ==
    /\ last.op = "read_preamble"
    /\ last.preamble.len = 11 + 346
    /\ UnpackDone
    /\ AllAssigned(self_attrs)

\* C3 as stated: a 356-byte block decodes through source_channel, a 354-byte
\* block fails.
C3_Original ==
    Unpacked =>
        /\ last.preamble.len = 356 => UnpackDone
        /\ last.preamble.len = 354 => UnpackRaised

\* C3 amended: a 356-byte block fails like a 354-byte one; where the C long
\* has 4 bytes the line that fails is the last one, source_channel, after every
\* earlier field was unpacked, and a 357-byte block is unpacked in full.
C3_Amended ==
    Unpacked =>
        /\ last.preamble.len \in {354, 356} => UnpackRaised /\ last.outcome = "raised"
        /\ (last.preamble.len \in {354, 356} /\ long_size = 4) =>
              /\ last.at = "source_channel"
              /\ (last.op = "read_preamble" /\ ~big_endian) =>
                    \A n \in FieldNames \ {"source_channel"} :
                        /\ n \in DOMAIN self_attrs
                        /\ self_attrs[n] = DeviceValues(last.preamble.v)[n]
        /\ (last.preamble.len = 357 /\ long_size = 4) => UnpackDone

C3_Witness ==
    /\ last.op = "read_preamble"
    /\ last.preamble.len = 356
    /\ long_size = 4
    /\ last.at = "source_channel"
    /\ "bw_limit" \in DOMAIN self_attrs

\* C4: every field is decoded from its byte range with a fixed little-endian
\* encoding whatever the host: a block of sufficient length always decodes,
\* and to the values the device put on the wire.
C4_DecodeIndependentOfHost ==
    (Unpacked /\ last.preamble.len >= 11 + 346) =>
        /\ UnpackDone
        /\ last.op = "read_preamble" =>
              \A n \in FieldNames : self_attrs[n] = DeviceValues(last.preamble.v)[n]

\* C5 as stated: a waveform is only ever returned by a session in which a
\* preamble was loaded before.
C5_Original == GotWaveform => loaded

\* C5 amended: get_waveform_data on a session that never connected returns
\* None, writes nothing and yields no waveform; every waveform returned comes
\* from a connected session and was scaled with a preamble unpacked in full
\* within that same call, whether or not the session ever loaded one.
C5_Amended ==
    last.op = "get_waveform_data" =>
        /\ oscilloscope = "None" =>
              /\ last.outcome = "returned"
              /\ last.ret_kind = "None"
              /\ last.cmds = <<>>
        /\ last.ret_kind = "waveform" =>
              /\ oscilloscope = "resource"
              /\ UnpackDone
              /\ AllAssigned(last.ret.attrs)
              /\ last.ret.attrs = PreambleDecodes[long_size][big_endian][last.preamble].attrs

C5_Witness == GotWaveform /\ ~loaded /\ self_attrs = NoAttrs

\* C6: after a successful get_waveform_data the preamble held by the session
\* is the one unpacked from the block read in that call, the one the waveform
\* was scaled with.
C6_FetchRefreshesHeldPreamble == GotWaveform => self_attrs = last.ret.attrs

\* C7: the session has no terminal state: in every state of a constructed
\* session a read_preamble that loads the preamble is possible, and so is a
\* get_waveform_data that returns a waveform.
C7_NoTerminalState ==
    constructed = "yes" =>
        /\ ENABLED (ReadPreamble /\ last'.outcome = "returned" /\ AllAssigned(self_attrs'))
        /\ ENABLED (GetWaveformData /\ last'.ret_kind = "waveform")

\* C8: a table look-up by a decoded index yields an entry exactly when the
\* index is inside the table: 0..38 for TIMEBASE_LIST, 0..7 for VALID_CHANNELS.
C8_LookupOnlyInsideTable ==
    /\ (last.op = "get_preamble_dict" /\ AllAssigned(self_attrs)) =>
          (last.ret_kind = "dict" <=>
              /\ self_attrs["timebase_idx"] \in 0..38
              /\ self_attrs["source_channel"] \in 0..7)
    /\ GotWaveform => last.ret.attrs["timebase_idx"] \in 0..38

\* C9: set_channel with a valid name makes it the active channel (taken on
\* a connected session, where nothing stands in the way of the selection).
C9_ValidChannelSelected ==
    (last.op = "set_channel" /\ is_valid_channel(last.channel)
                             /\ oscilloscope = "resource") =>
        wav_sour = last.channel

\* C10: set_channel with an invalid name never raises, whatever the state of
\* the session: it logs the diagnostic and sends no selection command.
C10_InvalidChannelNeverRaises ==
    (last.op = "set_channel" /\ ~is_valid_channel(last.channel)) =>
        /\ last.outcome = "returned"
        /\ last.log # <<>>
        /\ \A i \in DOMAIN last.cmds : last.cmds[i] = "WAV:SOUR?"

\* the last call was a get_waveform_data that read both blocks, unpacked the
\* preamble in full and found its timebase
ReachedSamples ==
    /\ last.op = "get_waveform_data"
    /\ UnpackDone
    /\ ~(last.outcome = "raised" /\ last.at = "timebase_idx")

\* the preamble the last call unpacked
Decoded == PreambleDecodes[long_size][big_endian][last.preamble].attrs

\* C11: get_waveform_data never returns a waveform when the number of samples
\* it decoded differs from the num_points of the preamble: the mismatch is
\* reported, not passed over.
C11_MismatchReported ==
    GotWaveform => Len(last.ret.raw_values) = last.ret.attrs["num_points"]

\* C12: the time and the voltage sequence of every waveform returned have the
\* same length, and that length is num_points whenever num_points is the
\* number of samples decoded.
C12_EqualLengths ==
    GotWaveform =>
        /\ Len(last.ret.time_data) = Len(last.ret.voltage_data)
        /\ last.ret.attrs["num_points"] = Len(last.ret.raw_values) =>
              Len(last.ret.voltage_data) = last.ret.attrs["num_points"]

\* C13: with code_per_div equal to 0 the call ends in an error it reports
\* itself: no waveform, and no exception of the division let out.
C13_ZeroDivisorReported ==
    (ReachedSamples /\ IsZeroFloat(Decoded["code_per_div"])) =>
        /\ last.ret_kind = "None"
        /\ last.exc # "ZeroDivisionError"

\* C14: a waveform block that holds no sample never yields a waveform.
C14_EmptyBlockRejected ==
    GotWaveform => Len(last.ret.raw_values) > 0

\* the call failed and said so: an exception raised to the caller, or None
\* returned after an error was logged
ReportedFailure ==
    /\ last.ret_kind = "None"
    /\ \/ last.outcome = "raised"
       \/ last.outcome = "returned" /\ last.log = <<"error">>

\* the waveform block is empty, or its digit-count header is inconsistent:
\* byte 1 is missing or no decimal digit, or D + 2 is beyond the block
BadHeader(buffer) ==
    \/ Len(buffer) < 2
    \/ buffer[2] \notin 48..57
    \/ (buffer[2] - 48) + 2 > Len(buffer)

\* C15: a waveform block that is empty or has an inconsistent digit-count
\* header makes the call fail: the failure is reported to the caller and no
\* samples come back.
C15_BadHeaderFails ==
    (ReachedSamples /\ BadHeader(last.wave)) =>
        /\ ReportedFailure
        /\ last.at \in {"num_digits", "raw_values"}
        /\ last.ret.raw_values = <<>>

C15_Witness ==
    /\ ReachedSamples
    /\ Len(last.wave) >= 2
    /\ last.wave[2] = 57
    /\ Len(last.wave) < 11
    /\ last.outcome = "returned"
    /\ last.at = "raw_values"

\* what the device sends after ':WAV:DATA?': the header, the payload, and the
\* terminator LF LF
Terminator == <<10, 10>>

Terminated(wave) ==
    /\ ~BadHeader(wave)
    /\ (wave[2] - 48) + 2 <= Len(wave) - Len(Terminator)
    /\ SubSeq(wave, Len(wave) - 1, Len(wave)) = Terminator

\* the bytes from offset D + 2 up to the terminator
SentPayload(wave) == SubSeq(wave, (wave[2] - 48) + 3, Len(wave) - Len(Terminator))

\* the signed 16-bit little-endian samples of a payload of even length
SamplesOf(payload) ==
    [i \in 1..(Len(payload) \div 2) |-> Int16(<<payload[2 * i - 1], payload[2 * i]>>)]

\* C16: the payload of a block with digit D is the bytes from offset D + 2 to
\* the end of the block without its terminator; a payload of odd length is a
\* decode error, one of even length decodes to its Len / 2 signed 16-bit
\* samples in order.
C16_PayloadFromOffset ==
    (ReachedSamples /\ Terminated(last.wave)) =>
        IF Len(SentPayload(last.wave)) % 2 = 1
        THEN ReportedFailure /\ last.at = "raw_values"
        ELSE /\ last.at # "raw_values"
             /\ GotWaveform => last.ret.raw_values = SamplesOf(SentPayload(last.wave))

\* C17: the voltage sequence has one entry per raw sample, in order, and entry
\* i is raw[i] * (vertical_gain / code_per_div) - vertical_offset with the
\* values of the preamble read in the call (as an equation of fractions:
\* n / d = raw * (g / c) - o); gain 1.0, code_per_div 100.0, offset 0.5 and
\* raw 200 give 3/2.
C17_VoltageFormula ==
    GotWaveform =>
        LET raw == last.ret.raw_values
            voltage == last.ret.voltage_data
            g == FloatValue(Decoded["vertical_gain"])
            c == FloatValue(Decoded["code_per_div"])
            o == FloatValue(Decoded["vertical_offset"])
        IN  /\ Len(voltage) = Len(raw)
            /\ \A i \in 1..Len(raw) :
                  /\ voltage[i][2] > 0
                  /\ voltage[i][1] * (g[2] * c[1] * o[2])
                        = voltage[i][2] * (raw[i] * g[1] * c[2] * o[2] - o[1] * g[2] * c[1])
                  /\ (last.preamble.v = "V1" /\ raw[i] = 200) => voltage[i] = <<3, 2>>

C17_Witness ==
    /\ GotWaveform
    /\ last.preamble.v = "V1"
    /\ last.ret.raw_values = <<200, -1, 256>>
    /\ last.ret.voltage_data = <<<<3, 2>>, <<-51, 100>>, <<103, 50>>>>

\* C18: the time axis has num_points entries whatever the number of samples
\* decoded, and entry i (from 0) is
\* horizontal_offset - 0.5 * 10 * timebase + i * horizontal_interval, timebase
\* being the entry of the table at timebase_idx (an index inside the table).
C18_TimeAxis ==
    (GotWaveform /\ Decoded["timebase_idx"] \in 0..38 /\ Decoded["num_points"] >= 0) =>
        LET time == last.ret.time_data
            timebase == LiteralValue(TIMEBASE_LIST[Decoded["timebase_idx"] + 1])
            offset == DoubleValue(Decoded["horizontal_offset"])
            interval == FloatValue(Decoded["horizontal_interval"])
            start == FracSub(offset, FracMul(<<5, 1>>, timebase))
        IN  /\ Len(time) = Decoded["num_points"]
            /\ \A i \in 0..(Len(time) - 1) :
                  time[i + 1] = FracAdd(start, FracMul(<<i, 1>>, interval))
            /\ (last.preamble.v = "V1" /\ Len(time) > 0) => time[1] = <<-1, 200000>>
            /\ last.preamble.v = "V4" => time = <<<<-4999, 1>>, <<-9997, 2>>, <<-4998, 1>>>>

C18_Witness ==
    /\ GotWaveform
    /\ last.preamble.v = "V1"
    /\ Len(last.ret.raw_values) = 2
    /\ Len(last.ret.time_data) = 3
    /\ last.ret.time_data[1] = <<-1, 200000>>

\* C20: stripping the terminator removes no sample data: a block whose payload
\* is a whole number of 16-bit samples, whatever the values of its last bytes,
\* decodes to every sample of the payload, and no odd-length error comes of
\* the strip.
C20_StripKeepsSamples ==
    (ReachedSamples /\ Terminated(last.wave)
                    /\ Len(SentPayload(last.wave)) % 2 = 0
                    /\ ~IsZeroFloat(Decoded["code_per_div"])) =>
        /\ GotWaveform
        /\ Len(last.ret.raw_values) = Len(SentPayload(last.wave)) \div 2
        /\ \A i \in 1..Len(last.ret.raw_values) :
              last.ret.raw_values[i] = SamplesOf(SentPayload(last.wave))[i]

\* C19: unpacking a preamble block is a function of its bytes: a call that
\* unpacks the block the first decode of the session unpacked, in whatever
\* state and after whatever other calls, ends at the same field with
\* struct.error or yields the same values.
C19_DecodeDeterministic ==
    (Unpacked /\ first.d = last.preamble) =>
        LET now == Observed(last, self_attrs)
        IN  /\ now.at = first.at
            /\ (now.shown /\ first.shown) => now.values = first.values

C19_Witness ==
    /\ first.op = "get_waveform_data"
    /\ first.shown
    /\ last.op = "read_preamble"
    /\ last.preamble = first.d
    /\ UnpackDone
    /\ AllAssigned(attrs_before)
    /\ attrs_before # first.values
    /\ self_attrs = first.values

----------------------------------------------------------------------------
(* Power supply *)

\* the commands the last power supply call handed to the transport
PsuEvents == {psu_call.events[i] : i \in 1..Len(psu_call.events)}

\* the Python number x lies in the closed range 0 .. limit
InRange(x, limit) == x.py # "nan" /\ 0 <= x.v[1] /\ x.v[1] <= limit * x.v[2]

\* the fraction f lies in the closed range 0 .. limit
Within(f, limit) == 0 <= f[1] /\ f[1] <= limit * f[2]

(* C21: no voltage outside 0 V .. 36 V and no current outside 0 A .. 10 A  *)
(* is ever sent to the supply: every SOUR:VOLT and SOUR:CURR command       *)
(* handed to the transport carries a number inside its range, so do the    *)
(* targets the supply holds, and a set_voltage or set_current call with an *)
(* argument outside the range hands nothing to the transport and leaves    *)
(* the supply as it was.                                                   *)
C21_WithinLimits ==
    /\ \A e \in PsuEvents :
          /\ e.cmd = "SOUR:VOLT" => Within(NumberRead(e.arg), 36)
          /\ e.cmd = "SOUR:CURR" => Within(NumberRead(e.arg), 10)
    /\ supply.volt # <<>> => Within(supply.volt, 36)
    /\ supply.curr # <<>> => Within(supply.curr, 10)
    /\ (psu_call.op = "set_voltage" /\ ~InRange(psu_call.arg, 36)) =>
          psu_call.events = <<>> /\ supply = psu_call.supply_before
    /\ (psu_call.op = "set_current" /\ ~InRange(psu_call.arg, 10)) =>
          psu_call.events = <<>> /\ supply = psu_call.supply_before

\* set_voltage(36.1) on a supply that had accepted 'SOUR:VOLT 36.0'
C21_Witness ==
    /\ psu_call.op = "set_voltage"
    /\ psu_call.arg = PyFloat(361, 10)
    /\ psu_call.events = <<>>
    /\ psu_call.log = "warning"
    /\ supply.volt = <<36, 1>>

(* C22: a constructor that connected has handed 'OUTP:STAT 0' to the       *)
(* transport as its only command after the identity query, and close()     *)
(* never closes the resource unless the command it handed to the transport *)
(* just before was 'OUTP:STAT 0', whether or not that command was          *)
(* delivered.                                                              *)
C22_OffBeforeClose ==
    /\ (psu_call.op = "__init__" /\ psu_call.events[1].ok) =>
          /\ Len(psu_call.events) = 3
          /\ psu_call.events[2].cmd = "*IDN?"
          /\ psu_call.events[3].cmd = "OUTP:STAT"
          /\ psu_call.events[3].arg = <<48>>
    /\ \A i \in 1..Len(psu_call.events) :
          psu_call.events[i].cmd = "close()" =>
              /\ i > 1
              /\ psu_call.events[i - 1].cmd = "OUTP:STAT"
              /\ psu_call.events[i - 1].arg = <<48>>

\* close() whose 'OUTP:STAT 0' ended in a VisaIOError and which closed
C22_Witness ==
    /\ psu_call.op = "close"
    /\ psu_call.events =
          <<PsuEvent("OUTP:STAT", <<48>>, FALSE), PsuEvent("close()", <<>>, TRUE)>>
    /\ psu = "closed"

(* C23: self.output_state is the output state of the last OUTP:STAT        *)
(* command the supply accepted: True only when that command was            *)
(* 'OUTP:STAT 1', False only when it was 'OUTP:STAT 0' or when the supply  *)
(* has accepted none, on a driver whose constructor connected.             *)
C23_CacheIsLastAccepted ==
    psu \in {"open", "closed"} =>
        /\ output_state = "True" => supply.outp = <<49>>
        /\ output_state = "False" => supply.outp \in {<<48>>, <<>>}

====
